---- MODULE Spec2Model ----
(***************************************************************************)
(* Model of src/birdeye.py: BirdEyeClient, a thin client over the BirdEye  *)
(* HTTP API.  One client, one thread.  A call is split at the points where *)
(* the transport answers, so that the order of requests and responses is   *)
(* observable; everything the handler does between two answers is one      *)
(* action.                                                                 *)
(*                                                                         *)
(* Strings are sequences of string chunks and an f-string is the           *)
(* concatenation of its chunks; an HTTP method name is a sequence of       *)
(* one-character chunks so that str.upper() is computed, not assumed.      *)
(***************************************************************************)
EXTENDS Integers, Sequences, FiniteSets, TLC

\* ---------------------------------------------------------------- bounds
MaxLen == 2        \* longest token_addresses list
MaxPrice == 2      \* price values 1..MaxPrice appear in responses
NumSeeds == 2      \* distinct overview payloads

Addresses == {"A", "B"}

\* all sequences over S of length 0..n
RECURSIVE SeqsUpTo(_, _)
SeqsUpTo(S, n) ==
    IF n = 0 THEN {<<>>}
    ELSE LET shorter == SeqsUpTo(S, n - 1)
         IN shorter \cup {Append(s, x) : s \in {t \in shorter : Len(t) = n - 1}, x \in S}

AddressLists == SeqsUpTo(Addresses, MaxLen)

\* ---------------------------------------------------------------- JSON values
\* a scalar JSON value as Python sees it after resp.json()
Scalar(t, v) == [t |-> t, v |-> v]
FloatV(v) == Scalar("float", v)
IntV(v) == Scalar("int", v)
StrV(v) == Scalar("str", v)
NullV == Scalar("null", 0)

NoKeys == [k \in {} |-> NullV]

\* a response body: t is what the body parses to ("invalid": not JSON)
Doc(t, o) == [t |-> t, o |-> o]
Object(o) == Doc("object", o)
NonObjectKinds == {"array", "null", "number", "string"}

\* what the transport hands back: an exception raised by requests, or a body
Raised(e) == [raises |-> e, body |-> Doc("none", NoKeys)]
Body(d) == [raises |-> "", body |-> d]

\* exceptions requests.get / requests.post can raise
TransportErrors == {"ConnectionError", "InvalidHeader"}

CommonResponses ==
    {Raised(e) : e \in TransportErrors}
    \cup {Body(Doc("invalid", NoKeys))}
    \cup {Body(Doc(t, NoKeys)) : t \in NonObjectKinds}

PriceValues ==
    {FloatV(p) : p \in 1..MaxPrice} \cup {IntV(1), NullV, StrV(1)}

PriceResponses ==
    CommonResponses
    \cup {Body(Object(NoKeys)), Body(Object([k \in {"success"} |-> IntV(0)]))}
    \cup {Body(Object([k \in {"value"} |-> v])) : v \in PriceValues}

\* ---------------------------------------------------------------- records
\* class TokenOverview: field names in declaration order, and declared types
OverviewKeys ==
    <<"address", "decimals", "liquidity", "logoURI", "mc", "symbol",
      "v24hChangePercent", "v24hUSD", "name", "lastTradeUnixTime">>

KeySet == {OverviewKeys[n] : n \in 1..Len(OverviewKeys)}

DeclaredType(k) ==
    CASE k \in {"address", "logoURI", "symbol", "name"} -> "str"
      [] k \in {"decimals", "lastTradeUnixTime"} -> "int"
      [] OTHER -> "float"

KeyIndex(k) == CHOOSE n \in 1..Len(OverviewKeys) : OverviewKeys[n] = k

\* a payload with every key present and of the declared type; the value under
\* a key is different from the value under every other key
FullObject(seed) == [k \in KeySet |-> Scalar(DeclaredType(k), 100 * seed + KeyIndex(k))]
Without(o, k) == [j \in (DOMAIN o) \ {k} |-> o[j]]
WithNull(o, k) == [j \in DOMAIN o |-> IF j = k THEN NullV ELSE o[j]]

OverviewResponses ==
    CommonResponses
    \cup {Body(Object(FullObject(s))) : s \in 1..NumSeeds}
    \cup {Body(Object(Without(FullObject(s), k))) : s \in 1..NumSeeds, k \in KeySet}
    \cup {Body(Object(WithNull(FullObject(s), k))) : s \in 1..NumSeeds, k \in KeySet}

PriceInfo(price) == [price |-> price]

\* TokenOverview with liquidity and mc read from each other's key
TokenOverview_swapped(data) ==
    [address |-> data["address"],
     decimals |-> data["decimals"],
     liquidity |-> data["mc"],
     logoURI |-> data["logoURI"],
     mc |-> data["liquidity"],
     symbol |-> data["symbol"],
     v24hChangePercent |-> data["v24hChangePercent"],
     v24hUSD |-> data["v24hUSD"],
     name |-> data["name"],
     lastTradeUnixTime |-> data["lastTradeUnixTime"]]

TokenOverview(data) ==
    [address |-> data["address"],
     decimals |-> data["decimals"],
     liquidity |-> data["liquidity"],
     logoURI |-> data["logoURI"],
     mc |-> data["mc"],
     symbol |-> data["symbol"],
     v24hChangePercent |-> data["v24hChangePercent"],
     v24hUSD |-> data["v24hUSD"],
     name |-> data["name"],
     lastTradeUnixTime |-> data["lastTradeUnixTime"]]

\* ---------------------------------------------------------------- configuration
BIRD_EYE_TOKEN == "<BIRD_EYE_TOKEN>"

Headers ==
    [h \in {"accept", "x-chain", "X-API-KEY"} |->
        CASE h = "accept" -> "application/json"
          [] h = "x-chain" -> "solana"
          [] OTHER -> BIRD_EYE_TOKEN]

\* ---------------------------------------------------------------- strings
GET == <<"G", "E", "T">>
POST == <<"P", "O", "S", "T">>

UpperChar(c) ==
    CASE c = "g" -> "G" [] c = "e" -> "E" [] c = "t" -> "T"
      [] c = "p" -> "P" [] c = "o" -> "O" [] c = "s" -> "S"
      [] c = "d" -> "D" [] c = "l" -> "L"
      [] OTHER -> c

Upper(s) == [n \in 1..Len(s) |-> UpperChar(s[n])]

Methods ==
    {GET, POST, <<"g", "e", "t">>, <<"P", "o", "s", "t">>,
     <<"D", "E", "L", "E", "T", "E">>}

PriceUrl(address) == <<"https://public-api.birdeye.so/public/price?address=">> \o <<address>>
OverviewUrl(address) == <<"https://public-api.birdeye.so/defi/token_overview?address=">> \o <<address>>

Urls == {PriceUrl("A"), OverviewUrl("B")}

NoTokensMsg == <<"No tokens provided.">>
InvalidPriceMsg(address) == <<"Invalid response received for token: ">> \o <<address>>
InvalidOverviewMsg(address) == <<"Invalid response received for token overview: ">> \o <<address>>
UnrecognisedMsg(method, query_url) ==
    <<"Unrecognised method \"">> \o method \o <<"\" passed for query - ">> \o query_url

\* ---------------------------------------------------------------- exceptions
\* the exception classes that `except (ValueError, KeyError)` catches
IsValueError(e) == e \in {"ValueError", "JSONDecodeError", "InvalidHeader"}
\* except ValueError alone
Caught_noKey(e) == IsValueError(e)

Caught(e) == IsValueError(e) \/ e = "KeyError"

\* ---------------------------------------------------------------- dispatch
\* _make_api_call up to the point where the request goes out: either the
\* ValueError of the default case, or the request handed to the transport
\* _make_api_call matching `method` itself, without .upper()
MakeApiCall_noUpper(method, query_url) ==
    IF method = GET
      THEN [raises |-> "", msg |-> <<>>,
            request |-> <<[verb |-> GET, url |-> query_url, headers |-> Headers]>>]
    ELSE IF method = POST
      THEN [raises |-> "", msg |-> <<>>,
            request |-> <<[verb |-> POST, url |-> query_url, headers |-> Headers]>>]
    ELSE [raises |-> "ValueError", msg |-> UnrecognisedMsg(method, query_url),
          request |-> <<>>]

MakeApiCall(method, query_url) ==
    LET m == Upper(method)
    IN IF m = GET
         THEN [raises |-> "", msg |-> <<>>,
               request |-> <<[verb |-> GET, url |-> query_url, headers |-> Headers]>>]
       ELSE IF m = POST
         THEN [raises |-> "", msg |-> <<>>,
               request |-> <<[verb |-> POST, url |-> query_url, headers |-> Headers]>>]
       ELSE [raises |-> "ValueError", msg |-> UnrecognisedMsg(method, query_url),
             request |-> <<>>]

\* resp.json() followed by the subscripting of `data` with the keys `keys`:
\* the exception raised, or "" when every key is found
Extract(resp, keys) ==
    IF resp.body.t = "invalid" THEN "JSONDecodeError"
    ELSE IF resp.body.t # "object" THEN "TypeError"
    ELSE IF \E k \in keys : k \notin DOMAIN resp.body.o THEN "KeyError"
    ELSE ""

\* ---------------------------------------------------------------- state
VARIABLES
    pc,          \* "idle" between calls, else where the running call waits
    call,        \* the running (or last) call and its arguments
    i,           \* fetch_prices: position of the loop in token_addresses
    prices,      \* fetch_prices: the local dict `prices`
    requests,    \* requests handed to the transport during this call
    responses,   \* what the transport answered during this call
    outcome,     \* "none" while running, then "return" or "raise"
    exc,         \* class of the exception raised
    msg,         \* message of the exception raised
    retPrices,   \* <<mapping>> when fetch_prices returned, else <<>>
    retOverview, \* <<record>> when fetch_token_overview returned, else <<>>
    previous     \* which call came before this one, and how it ended

vars ==
    <<pc, call, i, prices, requests, responses, outcome, exc, msg,
      retPrices, retOverview, previous>>

EmptyPrices == [a \in {} |-> PriceInfo(NullV)]

\* a dict that outlives the call (a class attribute or a default argument)
NewPrices_stale(old) == old

\* prices = {}
NewPrices(old) == EmptyPrices

\* prices.setdefault(address, info): the first entry for an address stays
Put_setdefault(d, address, info) ==
    [a \in (DOMAIN d) \cup {address} |-> IF a \in DOMAIN d THEN d[a] ELSE info]

\* prices[address] = info
Put(d, address, info) ==
    [a \in (DOMAIN d) \cup {address} |-> IF a = address THEN info ELSE d[a]]

Call(op, token_addresses, address, method, query_url) ==
    [op |-> op, token_addresses |-> token_addresses, address |-> address,
     method |-> method, query_url |-> query_url]

Init ==
    /\ pc = "idle"
    /\ call = Call("none", <<>>, "", <<>>, <<>>)
    /\ i = 0
    /\ prices = EmptyPrices
    /\ requests = <<>>
    /\ responses = <<>>
    /\ outcome = "none"
    /\ exc = ""
    /\ msg = <<>>
    /\ retPrices = <<>>
    /\ retOverview = <<>>
    /\ previous = [op |-> "none", outcome |-> "none"]

\* a call starts: the one before it becomes the previous call
Enter(op, token_addresses, address, method, query_url) ==
    /\ pc = "idle"
    /\ call' = Call(op, token_addresses, address, method, query_url)
    /\ previous' = [op |-> call.op, outcome |-> outcome]
    /\ responses' = <<>>

\* the transport answers the request the call waits on
Answer(where, resp) ==
    /\ pc = where
    /\ responses' = Append(responses, resp)
    /\ UNCHANGED <<call, previous>>

\* the emptiness check left out
NoTokens_never(token_addresses) == FALSE

\* if not token_addresses
NoTokens(token_addresses) == token_addresses = <<>>

\* the call ends with exception e carrying message m
Raise(e, m) ==
    /\ pc' = "idle"
    /\ outcome' = "raise"
    /\ exc' = e
    /\ msg' = m
    /\ retPrices' = <<>>
    /\ retOverview' = <<>>

\* the call is suspended until the transport answers
Await(where) ==
    /\ pc' = where
    /\ outcome' = "none"
    /\ exc' = ""
    /\ msg' = <<>>
    /\ retPrices' = <<>>
    /\ retOverview' = <<>>

\* the call ends normally
Return(rp, ro) ==
    /\ pc' = "idle"
    /\ outcome' = "return"
    /\ exc' = ""
    /\ msg' = <<>>
    /\ retPrices' = rp
    /\ retOverview' = ro

\* the try block without its except clause
Reraise_passthrough(e, own, m) == Raise(e, own)

\* what leaves a try block whose except clause re-raises ValueError(m):
\* a caught exception becomes ValueError(m), any other passes through
Reraise(e, own, m) ==
    IF Caught(e) THEN Raise("ValueError", m) ELSE Raise(e, own)

\* fetch_prices at the head of its loop, about to handle element n with the
\* dict pr built so far and the requests reqs sent so far
LoopHead(addrs, n, pr, reqs) ==
    /\ i' = n
    /\ prices' = pr
    /\ IF n > Len(addrs)
         THEN /\ requests' = reqs
              /\ Return(<<pr>>, <<>>)
       ELSE LET r == MakeApiCall(GET, PriceUrl(addrs[n]))
            IN IF r.raises # ""
                 THEN /\ requests' = reqs
                      /\ Reraise(r.raises, r.msg, InvalidPriceMsg(addrs[n]))
               ELSE /\ requests' = reqs \o r.request
                    /\ Await("fp_response")

\* fetch_prices(token_addresses), up to its first request
FetchPrices(token_addresses) ==
    /\ Enter("fetch_prices", token_addresses, "", <<>>, <<>>)
    /\ IF NoTokens(token_addresses)
         THEN /\ Raise("ValueError", NoTokensMsg)
              /\ requests' = <<>>
              /\ UNCHANGED <<i, prices>>
       ELSE LoopHead(token_addresses, 1, NewPrices(prices), <<>>)

\* fetch_prices skipping an element that fails instead of raising
FetchPricesResponse_continue(resp) ==
    /\ Answer("fp_response", resp)
    /\ LET address == call.token_addresses[i]
           e == IF resp.raises # "" THEN resp.raises ELSE Extract(resp, {"value"})
       IN IF e # ""
            THEN LoopHead(call.token_addresses, i + 1, prices, requests)
          ELSE LoopHead(call.token_addresses, i + 1,
                        Put(prices, address, PriceInfo(resp.body.o["value"])),
                        requests)

\* fetch_prices: the transport answers the request for element i; the rest of
\* the loop body runs, and the loop goes on to the next request or returns
FetchPricesResponse(resp) ==
    /\ Answer("fp_response", resp)
    /\ LET address == call.token_addresses[i]
           e == IF resp.raises # "" THEN resp.raises ELSE Extract(resp, {"value"})
       IN IF e # ""
            THEN /\ Reraise(e, <<>>, InvalidPriceMsg(address))
                 /\ UNCHANGED <<i, prices, requests>>
          ELSE LoopHead(call.token_addresses, i + 1,
                        Put(prices, address, PriceInfo(resp.body.o["value"])),
                        requests)

\* fetch_token_overview(address), up to its request
FetchTokenOverview(address) ==
    /\ Enter("fetch_token_overview", <<>>, address, <<>>, <<>>)
    /\ UNCHANGED <<i, prices>>
    /\ LET r == MakeApiCall(GET, OverviewUrl(address))
       IN IF r.raises # ""
            THEN /\ requests' = <<>>
                 /\ Reraise(r.raises, r.msg, InvalidOverviewMsg(address))
          ELSE /\ requests' = r.request
               /\ Await("ov_response")

\* fetch_token_overview: the transport answers
FetchTokenOverviewResponse(resp) ==
    /\ Answer("ov_response", resp)
    /\ UNCHANGED <<i, prices, requests>>
    /\ LET e == IF resp.raises # "" THEN resp.raises ELSE Extract(resp, KeySet)
       IN IF e # ""
            THEN Reraise(e, <<>>, InvalidOverviewMsg(call.address))
          ELSE Return(<<>>, <<TokenOverview(resp.body.o)>>)

\* _make_api_call(method, query_url) called directly, up to its request
MakeApiCallDirect(method, query_url) ==
    /\ Enter("_make_api_call", <<>>, "", method, query_url)
    /\ UNCHANGED <<i, prices>>
    /\ LET r == MakeApiCall(method, query_url)
       IN IF r.raises # ""
            THEN /\ requests' = <<>>
                 /\ Raise(r.raises, r.msg)
          ELSE /\ requests' = r.request
               /\ Await("mk_response")

\* _make_api_call: the transport answers; the response is returned unread
MakeApiCallResponse(resp) ==
    /\ Answer("mk_response", resp)
    /\ UNCHANGED <<i, prices, requests>>
    /\ IF resp.raises # ""
         THEN Raise(resp.raises, <<>>)
       ELSE Return(<<>>, <<>>)

Next ==
    \/ \E token_addresses \in AddressLists : FetchPrices(token_addresses)
    \/ \E resp \in PriceResponses : FetchPricesResponse(resp)
    \/ \E address \in Addresses : FetchTokenOverview(address)
    \/ \E resp \in OverviewResponses : FetchTokenOverviewResponse(resp)
    \/ \E method \in Methods, query_url \in Urls : MakeApiCallDirect(method, query_url)
    \/ \E resp \in CommonResponses : MakeApiCallResponse(resp)

Spec == Init /\ [][Next]_vars

\* ---------------------------------------------------------------- properties
\* the three errors of the client, all raised as ValueError
InvalidInput == outcome = "raise" /\ exc = "ValueError" /\ msg = NoTokensMsg
InvalidResponsePrice(address) ==
    outcome = "raise" /\ exc = "ValueError" /\ msg = InvalidPriceMsg(address)
InvalidResponseOverview(address) ==
    outcome = "raise" /\ exc = "ValueError" /\ msg = InvalidOverviewMsg(address)
UnsupportedMethod(method, query_url) ==
    outcome = "raise" /\ exc = "ValueError" /\ msg = UnrecognisedMsg(method, query_url)

\* a response that is a JSON object holding every key of `keys`
HasKeys(resp, keys) ==
    resp.raises = "" /\ resp.body.t = "object" /\ keys \subseteq DOMAIN resp.body.o
\* a response that is a JSON object lacking a key of `keys`
LacksKey(resp, keys) ==
    resp.raises = "" /\ resp.body.t = "object" /\ ~(keys \subseteq DOMAIN resp.body.o)

Range(q) == {q[n] : n \in 1..Len(q)}
LastIndex(q, x) == CHOOSE n \in 1..Len(q) : q[n] = x /\ \A m \in (n + 1)..Len(q) : q[m] # x

PriceRequest(address) == [verb |-> GET, url |-> PriceUrl(address), headers |-> Headers]
OverviewRequest(address) == [verb |-> GET, url |-> OverviewUrl(address), headers |-> Headers]

EndedPrices == pc = "idle" /\ call.op = "fetch_prices"
EndedOverview == pc = "idle" /\ call.op = "fetch_token_overview"

\* C1: a fetch_prices call on a non-empty list that has ended, and in which
\* every response received was a JSON object with the key `value`, has
\* returned a mapping; its key set is the set of the input addresses, and the
\* entry of an address is PriceInfo(price = value of the response to the
\* request for that address; the last one when the address is repeated).
C1_KeySetAndValues ==
    (/\ EndedPrices
     /\ call.token_addresses # <<>>
     /\ \A n \in 1..Len(responses) : HasKeys(responses[n], {"value"}))
    => /\ outcome = "return"
       /\ Len(responses) = Len(call.token_addresses)
       /\ Len(retPrices) = 1
       /\ DOMAIN retPrices[1] = Range(call.token_addresses)
       /\ \A a \in Range(call.token_addresses) :
            retPrices[1][a] =
                PriceInfo(responses[LastIndex(call.token_addresses, a)].body.o["value"])

C1_Witness ==
    /\ EndedPrices
    /\ outcome = "return"
    /\ call.token_addresses = <<"A", "A">>
    /\ responses[1].body.o["value"] = FloatV(1)
    /\ retPrices = <<[a \in {"A"} |-> PriceInfo(FloatV(2))]>>

\* C2: whenever a response to fetch_prices is a JSON object without the key
\* `value`, it is the last response of the call, every response before it was
\* well-formed (so it is the first failing address in input order), and the
\* call has failed with InvalidResponse naming the address of that request,
\* returning no mapping.
C2_MissingValueAborts ==
    call.op = "fetch_prices" =>
        \A n \in 1..Len(responses) :
            LacksKey(responses[n], {"value"}) =>
                /\ n = Len(responses)
                /\ \A m \in 1..(n - 1) : HasKeys(responses[m], {"value"})
                /\ pc = "idle"
                /\ InvalidResponsePrice(call.token_addresses[n])
                /\ retPrices = <<>>

C2_Witness ==
    /\ EndedPrices
    /\ Len(responses) = 2
    /\ LacksKey(responses[2], {"value"})
    /\ call.token_addresses[1] # call.token_addresses[2]
    /\ DOMAIN prices = {call.token_addresses[1]}
    /\ outcome = "raise"

\* C3: fetch_prices on the empty list has failed with InvalidInput, with no
\* request handed to the transport and nothing returned, whatever call came
\* before it.
C3_EmptyListInvalidInput ==
    (call.op = "fetch_prices" /\ call.token_addresses = <<>>)
    => /\ pc = "idle"
       /\ InvalidInput
       /\ requests = <<>>
       /\ responses = <<>>
       /\ retPrices = <<>>

C3_Witness ==
    /\ call.op = "fetch_prices"
    /\ call.token_addresses = <<>>
    /\ InvalidInput
    /\ previous = [op |-> "fetch_prices", outcome |-> "return"]
    /\ prices # EmptyPrices

\* C4: every failure of fetch_prices on a non-empty list and of
\* fetch_token_overview is the InvalidResponse error carrying the address
\* whose call or parse failed; no other error escapes.
C4_OnlyInvalidResponse ==
    /\ (EndedPrices /\ outcome = "raise" /\ call.token_addresses # <<>>)
       => InvalidResponsePrice(call.token_addresses[i])
    /\ (EndedOverview /\ outcome = "raise")
       => InvalidResponseOverview(call.address)

\* C5: fetch_token_overview on a response that is a JSON object with all ten
\* keys has returned a TokenOverview with exactly the ten fields, each equal
\* to the value under the key of the same name, after exactly one GET request
\* to the overview URL of the address.
C5_OverviewFields ==
    (EndedOverview /\ Len(responses) = 1 /\ HasKeys(responses[1], KeySet))
    => /\ outcome = "return"
       /\ Len(retOverview) = 1
       /\ DOMAIN retOverview[1] = KeySet
       /\ \A k \in KeySet : retOverview[1][k] = responses[1].body.o[k]
       /\ requests = <<OverviewRequest(call.address)>>

C5_Witness ==
    /\ EndedOverview
    /\ outcome = "return"
    /\ call.address = "A"
    /\ retOverview[1].liquidity = FloatV(103)
    /\ retOverview[1].mc = FloatV(105)
    /\ retOverview[1].lastTradeUnixTime = IntV(110)

\* C6: fetch_token_overview on a response that is a JSON object lacking one
\* of the ten keys has failed with InvalidResponse naming the address passed,
\* and returned no record.
C6_MissingKeyInvalidResponse ==
    (EndedOverview /\ Len(responses) = 1 /\ LacksKey(responses[1], KeySet))
    => /\ InvalidResponseOverview(call.address)
       /\ retOverview = <<>>

C6_Witness ==
    /\ EndedOverview
    /\ call.address = "B"
    /\ Len(responses) = 1
    /\ LacksKey(responses[1], KeySet)
    /\ "address" \in DOMAIN responses[1].body.o
    /\ InvalidResponseOverview("B")

\* C7 as stated: a method name that is not literally GET or POST fails with
\* UnsupportedMethod naming the method and the URL, with no request issued;
\* GET and POST issue exactly one request of that verb.
C7_Original ==
    call.op = "_make_api_call" =>
        IF call.method \in {GET, POST}
          THEN requests = <<[verb |-> call.method, url |-> call.query_url, headers |-> Headers]>>
        ELSE /\ UnsupportedMethod(call.method, call.query_url)
             /\ requests = <<>>

\* C7 amended: the method name is compared after upper-casing.  A name whose
\* upper-case form is neither GET nor POST fails with UnsupportedMethod naming
\* the method as passed and the URL, with no request issued; any other name
\* issues exactly one request, of the verb that is its upper-case form.
C7_CaseInsensitive ==
    call.op = "_make_api_call" =>
        IF Upper(call.method) \in {GET, POST}
          THEN /\ requests = <<[verb |-> Upper(call.method), url |-> call.query_url,
                                headers |-> Headers]>>
               /\ ~UnsupportedMethod(call.method, call.query_url)
        ELSE /\ pc = "idle"
             /\ UnsupportedMethod(call.method, call.query_url)
             /\ requests = <<>>
             /\ responses = <<>>

C7_Witness ==
    /\ call.op = "_make_api_call"
    /\ call.method = <<"D", "E", "L", "E", "T", "E">>
    /\ call.query_url = PriceUrl("A")
    /\ msg = <<"Unrecognised method \"", "D", "E", "L", "E", "T", "E",
               "\" passed for query - ",
               "https://public-api.birdeye.so/public/price?address=", "A">>

\* C8: every record returned is fully populated with values of the declared
\* kinds: price a number; the float fields numbers; the int fields integers;
\* the str fields strings.
Number == {"int", "float"}
KindOk(declared, v) ==
    CASE declared = "float" -> v.t \in Number
      [] declared = "int" -> v.t = "int"
      [] OTHER -> v.t = "str"

C8_FullyPopulated ==
    /\ \A n \in 1..Len(retPrices) : \A a \in DOMAIN retPrices[n] :
          KindOk("float", retPrices[n][a].price)
    /\ \A n \in 1..Len(retOverview) : \A k \in KeySet :
          KindOk(DeclaredType(k), retOverview[n][k])

\* C9: fetch_prices sends one GET per list element, in list order, each one
\* only after the response to the one before it was parsed successfully; a
\* call that failed at element k sent exactly k requests, and a call that
\* returned sent one per element.
C9_Sequential ==
    call.op = "fetch_prices" =>
        /\ Len(requests) <= Len(call.token_addresses)
        /\ \A n \in 1..Len(requests) : requests[n] = PriceRequest(call.token_addresses[n])
        /\ pc = "fp_response" => Len(requests) = Len(responses) + 1
        /\ pc = "idle" => Len(requests) = Len(responses)
        /\ \A n \in 1..(Len(requests) - 1) : HasKeys(responses[n], {"value"})
        /\ (pc = "idle" /\ outcome = "raise" /\ call.token_addresses # <<>>)
           => ~HasKeys(responses[Len(responses)], {"value"})
        /\ (pc = "idle" /\ outcome = "return")
           => Len(requests) = Len(call.token_addresses)

C9_Witness ==
    /\ EndedPrices
    /\ outcome = "raise"
    /\ call.token_addresses = <<"A", "B">>
    /\ requests = <<PriceRequest("A")>>
    /\ responses = <<Raised("ConnectionError")>>

\* what a call with arguments c that received the responses resps shows to
\* its caller and to the transport, written from c and resps alone
Observed(o, e, m, rp, ro, reqs) ==
    [outcome |-> o, exc |-> e, msg |-> m, retPrices |-> rp, retOverview |-> ro,
     requests |-> reqs]

Failure(resp, keys) ==
    IF resp.raises # "" THEN resp.raises
    ELSE IF resp.body.t = "invalid" THEN "JSONDecodeError"
    ELSE IF resp.body.t # "object" THEN "TypeError"
    ELSE IF keys \subseteq DOMAIN resp.body.o THEN ""
    ELSE "KeyError"

Normalised(e) == e \in {"ValueError", "JSONDecodeError", "InvalidHeader", "KeyError"}

ExpectedPrices(c, resps) ==
    LET addrs == c.token_addresses
        k == Len(resps)
        sent == [n \in 1..k |-> PriceRequest(addrs[n])]
        e == Failure(resps[k], {"value"})
    IN IF addrs = <<>>
         THEN Observed("raise", "ValueError", NoTokensMsg, <<>>, <<>>, <<>>)
       ELSE IF e = ""
         THEN Observed("return", "", <<>>,
                       <<[a \in Range(addrs) |->
                            [price |-> resps[LastIndex(addrs, a)].body.o["value"]]]>>,
                       <<>>, sent)
       ELSE IF Normalised(e)
         THEN Observed("raise", "ValueError", InvalidPriceMsg(addrs[k]), <<>>, <<>>, sent)
       ELSE Observed("raise", e, <<>>, <<>>, <<>>, sent)

ExpectedOverview(c, resps) ==
    LET e == Failure(resps[1], KeySet)
        sent == <<OverviewRequest(c.address)>>
    IN IF e = ""
         THEN Observed("return", "", <<>>, <<>>,
                       <<[k \in KeySet |-> resps[1].body.o[k]]>>, sent)
       ELSE IF Normalised(e)
         THEN Observed("raise", "ValueError", InvalidOverviewMsg(c.address), <<>>, <<>>, sent)
       ELSE Observed("raise", e, <<>>, <<>>, <<>>, sent)

ExpectedDispatch(c, resps) ==
    IF Upper(c.method) \notin {GET, POST}
      THEN Observed("raise", "ValueError", UnrecognisedMsg(c.method, c.query_url),
                    <<>>, <<>>, <<>>)
    ELSE LET sent == <<[verb |-> Upper(c.method), url |-> c.query_url, headers |-> Headers]>>
         IN IF resps[1].raises # ""
              THEN Observed("raise", resps[1].raises, <<>>, <<>>, <<>>, sent)
            ELSE Observed("return", "", <<>>, <<>>, <<>>, sent)

Expected(c, resps) ==
    CASE c.op = "fetch_prices" -> ExpectedPrices(c, resps)
      [] c.op = "fetch_token_overview" -> ExpectedOverview(c, resps)
      [] OTHER -> ExpectedDispatch(c, resps)

\* C10: what a finished call returned or raised, and the requests it sent
\* (verb, URL and the three fixed headers), are a function of the call's
\* arguments and of the responses received during the call, whatever calls
\* came before; the mapping fetch_prices returns has no key and no value from
\* an earlier call.
C10_NoCrossCallState ==
    (pc = "idle" /\ call.op # "none")
    => /\ Observed(outcome, exc, msg, retPrices, retOverview, requests)
            = Expected(call, responses)
       /\ \A n \in 1..Len(requests) : requests[n].headers = Headers

C10_Witness ==
    /\ previous = [op |-> "fetch_prices", outcome |-> "raise"]
    /\ EndedPrices
    /\ outcome = "return"
    /\ call.token_addresses = <<"A">>
    /\ DOMAIN retPrices[1] = {"A"}

====
